---- MODULE Spec2Model ----
(***************************************************************************)
(* uv-auth: the authentication middleware (crates/uv-auth/src/             *)
(* middleware.rs).  AuthMiddleware::handle and its helpers                 *)
(* complete_request, complete_request_with_request_credentials and         *)
(* fetch_credentials are modelled step by step; a step ends at each await  *)
(* (the wrapped HTTP send, the keyring call, the single-flight wait).      *)
(* The credentials cache, the index registry and the providers live in     *)
(* other files of the crate and are modelled from their specification.     *)
(***************************************************************************)
EXTENDS Integers, Sequences, FiniteSets, TLC

VARIABLES
    cfg,        \* the middleware: only_authenticated, indexes, netrc, keyring, known provider
    world,      \* the environment: the clients, what they request, what the server answers
    url_map,    \* CredentialsCache: URL-prefix entries
    realm_map,  \* CredentialsCache: realm entries
    fetches,    \* CredentialsCache: the single-flight slots
    h,          \* per client: the locals of its current call of handle
    nreq,       \* requests handled so far
    nseed,      \* caller-side cache inserts so far
    chains,     \* history: provider-chain executions, per single-flight key
    trail       \* history: the finished calls and the caller's inserts, when world.history

vars == <<cfg, world, url_map, realm_map, fetches, h, nreq, nseed, chains, trail>>

(***************************************************************************)
(* Bounds of the model.                                                    *)
(***************************************************************************)
MaxRequests == 2
MaxSeeds == 1

(***************************************************************************)
(* Values.                                                                 *)
(***************************************************************************)
None == "none"

\* Option<Credentials>: `some` is FALSE for None.
NoCreds == [some |-> FALSE, username |-> None, password |-> None]
Creds(u, p) == [some |-> TRUE, username |-> u, password |-> p]

Url(r, p) == [realm |-> r, path |-> p]
NoUrl == [realm |-> None, path |-> <<>>]

IsPrefix(a, b) == Len(a) <= Len(b) /\ SubSeq(b, 1, Len(a)) = a

\* Realm::from(url): scheme, host and port of the URL.
RealmOf(url) == url.realm

\* StatusCode::FORBIDDEN | StatusCode::NOT_FOUND | StatusCode::UNAUTHORIZED
UNAUTHORIZED == 401
FORBIDDEN == 403
NOT_FOUND == 404

\* The outcome of next.run: a response with a status, or a transport error.
Response(s) == [kind |-> "response", status |-> s]
TransportError == [kind |-> "transport", status |-> 0]
MissingCredentials == [kind |-> "MissingCredentials", status |-> 0]
MissingPassword == [kind |-> "MissingPassword", status |-> 0]
NotCloneable == [kind |-> "NotCloneable", status |-> 0]
NoResult == [kind |-> None, status |-> 0]

(***************************************************************************)
(* The index registry (Indexes::index_url_for, Indexes::auth_policy_for).  *)
(* An index is [url, root_url, auth_policy]; a URL matches an index when   *)
(* it is in the realm of root_url and its path starts with root_url's path *)
(* on a segment boundary.                                                  *)
(***************************************************************************)
Index(url, root, policy) == [url |-> url, root_url |-> root, auth_policy |-> policy]

Matches(index, url) ==
    /\ index.root_url.realm = url.realm
    /\ IsPrefix(index.root_url.path, url.path)

MatchingIndexes(url) == {i \in 1..Len(cfg.indexes) : Matches(cfg.indexes[i], url)}

FirstMatch(url) == CHOOSE i \in MatchingIndexes(url) : \A j \in MatchingIndexes(url) : i <= j

index_url_for(url) ==
    IF MatchingIndexes(url) = {} THEN NoUrl ELSE cfg.indexes[FirstMatch(url)].url

auth_policy_for(url) ==
    IF MatchingIndexes(url) = {} THEN "Auto" ELSE cfg.indexes[FirstMatch(url)].auth_policy

(***************************************************************************)
(* The credentials cache: get_url, get_realm, insert.                      *)
(* url_map and realm_map are sets of entries; a key holds at most one.     *)
(* A lookup yields the set of entries the cache may return ({NoCreds} for  *)
(* a miss): with a concrete username only entries of that username, with   *)
(* a missing username entries of any username, the concrete ones first.    *)
(***************************************************************************)
UrlCandidates(url, username) ==
    {e \in url_map :
        /\ e.url.realm = url.realm
        /\ IsPrefix(e.url.path, url.path)
        /\ (username = None \/ e.username = username)}

Longest(es) == {e \in es : \A f \in es : Len(f.url.path) <= Len(e.url.path)}

PreferConcrete(es) ==
    IF \E e \in es : e.username # None THEN {e \in es : e.username # None} ELSE es

get_url(url, username) ==
    IF UrlCandidates(url, username) = {} THEN {NoCreds}
    ELSE {e.creds : e \in PreferConcrete(Longest(UrlCandidates(url, username)))}

RealmCandidates(realm, username) ==
    {e \in realm_map : e.realm = realm /\ (username = None \/ e.username = username)}

get_realm(realm, username) ==
    IF RealmCandidates(realm, username) = {} THEN {NoCreds}
    ELSE {e.creds : e \in PreferConcrete(RealmCandidates(realm, username))}

UrlEntry(url, c) == [url |-> url, username |-> c.username, creds |-> c]
RealmEntry(realm, c) == [realm |-> realm, username |-> c.username, creds |-> c]

\* insert(url, creds): the URL entry replaces, the realm entry is kept if there is one.
InsertUrl(m, url, c) ==
    {e \in m : ~(e.url = url /\ e.username = c.username)} \cup {UrlEntry(url, c)}

InsertRealm(m, realm, c) ==
    IF \E e \in m : e.realm = realm /\ e.username = c.username THEN m
    ELSE m \cup {RealmEntry(realm, c)}

(***************************************************************************)
(* The Authorization header.  Credentials::authenticate writes             *)
(* Basic base64(username:password), a missing part as the empty string;    *)
(* Credentials::from_request reads it back, an empty part as missing.      *)
(***************************************************************************)
NoHeader == [some |-> FALSE, user |-> "", pass |-> ""]
Basic(u, p) == [some |-> TRUE, user |-> u, pass |-> p]

to_header(c) ==
    Basic(IF c.username = None THEN "" ELSE c.username,
          IF c.password = None THEN "" ELSE c.password)

from_request(header) ==
    IF ~header.some THEN NoCreds
    ELSE Creds(IF header.user = "" THEN None ELSE header.user,
               IF header.pass = "" THEN None ELSE header.pass)

(***************************************************************************)
(* The providers.                                                          *)
(*   known:   HuggingFaceProvider::credentials_for, a function of the URL. *)
(*   netrc:   Credentials::from_netrc: the machine entry of the host, or   *)
(*            the default entry; a given username must equal its login.    *)
(*   keyring: KeyringProvider::fetch(service, username): the entry of the  *)
(*            exact URL, or else of the host.                              *)
(***************************************************************************)
credentials_for(url) ==
    IF url.realm \in cfg.known THEN Creds(None, "t") ELSE NoCreds

NetrcHost(url) ==
    IF \E e \in cfg.netrc.entries : e.host = url.realm THEN url.realm ELSE "default"

from_netrc(url, username) ==
    IF \E e \in cfg.netrc.entries :
          e.host = NetrcHost(url) /\ (username = None \/ e.login = username)
    THEN LET e == CHOOSE e \in cfg.netrc.entries :
                     e.host = NetrcHost(url) /\ (username = None \/ e.login = username)
         IN Creds(e.login, e.password)
    ELSE NoCreds

KeyringExact(service, username) ==
    {e \in cfg.keyring.entries :
        e.kind = "url" /\ e.realm = service.realm /\ e.path = service.path
        /\ (username = None \/ e.username = username)}

KeyringHost(service, username) ==
    {e \in cfg.keyring.entries :
        e.kind = "host" /\ e.realm = service.realm
        /\ (username = None \/ e.username = username)}

keyring_fetch(service, username) ==
    IF KeyringExact(service, username) # {}
    THEN {Creds(e.username, e.password) : e \in KeyringExact(service, username)}
    ELSE IF KeyringHost(service, username) # {}
    THEN {Creds(e.username, e.password) : e \in KeyringHost(service, username)}
    ELSE {NoCreds}

(***************************************************************************)
(* The single-flight map (cache.fetches): a slot per key, waiting until    *)
(* done(key, value) publishes its value.                                   *)
(***************************************************************************)
NoKey == [kind |-> None, url |-> NoUrl, username |-> None]

HasSlot(f, key) == \E e \in f : e.key = key

\* register(key): TRUE for the caller that creates the slot.
register(f, key) == ~HasSlot(f, key)

Registered(f, key) ==
    {e \in f : e.key # key} \cup {[key |-> key, state |-> "waiting", value |-> NoCreds]}

done(f, key, value) ==
    {e \in f : e.key # key} \cup {[key |-> key, state |-> "done", value |-> value]}

IsDone(f, key) == \E e \in f : e.key = key /\ e.state = "done"

SlotValue(f, key) == (CHOOSE e \in f : e.key = key).value

(***************************************************************************)
(* The locals of one call of handle.                                       *)
(*   pc       idle | probe | send | wait | keyring | done | cancelled      *)
(*   req      the request as it arrived: url, Authorization header, and    *)
(*            whether try_clone succeeds                                   *)
(*   header   the Authorization header now on request / retry_request      *)
(*   log      history: the cache lookups, provider calls and sends of this *)
(*            call, in order                                               *)
(***************************************************************************)
Request(url, header, cloneable) == [url |-> url, header |-> header, cloneable |-> cloneable]

Idle ==
    [pc |-> "idle",
     req |-> Request(NoUrl, NoHeader, TRUE),
     header |-> NoHeader,
     credentials |-> NoCreds,
     attempt_has_username |-> FALSE,
     response |-> NoResult,
     ins |-> NoCreds,
     ret |-> None,
     arg |-> NoCreds,
     key |-> NoKey,
     result |-> NoResult,
     log |-> <<>>]

Event(op, c, n) == [op |-> op, creds |-> c, status |-> n]

Log(s, op, c) == [s EXCEPT !.log = Append(@, Event(op, c, 0))]

Finish(s, result) == [s EXCEPT !.pc = "done", !.result = result]

\* credentials.authenticate(request)
authenticate(s, c) == [s EXCEPT !.header = to_header(c)]

\* A step of a handler yields the new locals together with the single-flight
\* map and the chain counts as it leaves them.
Ctx(s, f, c) == [s |-> s, f |-> f, c |-> c]

PolicyOf(s) == auth_policy_for(s.req.url)
IndexOf(s) == index_url_for(s.req.url)

(***************************************************************************)
(* complete_request, up to the await of next.run.                          *)
(***************************************************************************)
\* A password check that does not look at the policy.
missing_password_any_policy(policy, credentials) == credentials.password = None

MissingPasswordCheck(policy, credentials) ==
    policy = "Always" /\ credentials.password = None

complete_request(s, credentials) ==
    IF credentials.some /\ MissingPasswordCheck(PolicyOf(s), credentials)
    THEN Finish(s, MissingPassword)
    ELSE Log([s EXCEPT !.pc = "send", !.ins = credentials], "send", from_request(s.header))

\* A status check that takes only client errors for errors.
client_error_only(status) == status >= 400 /\ status <= 499

\* A status check that takes only server errors for errors.
server_error_only(status) == status >= 500 /\ status <= 599

\* response.error_for_status_ref(): Err for a client or server error status.
error_for_status(status) == status >= 400 /\ status <= 599

\* A completion that caches whatever next.run returned.
ShouldCacheAlways(outcome) == TRUE

\* A completion that caches after any response, whatever its status.
should_cache_any_response(outcome) == outcome.kind = "response"

\* result.is_ok_and(|response| response.error_for_status_ref().is_ok())
ShouldCache(outcome) ==
    outcome.kind = "response" /\ ~error_for_status(outcome.status)

(***************************************************************************)
(* handle after fetch_credentials has returned `fetched`.                  *)
(***************************************************************************)
\* A handler that forgets the response it kept from the probe.
resume_handle_without_response(s, fetched) ==
    IF fetched.some
    THEN complete_request(authenticate(s, fetched), fetched)
    ELSE IF s.credentials.some /\ ~s.attempt_has_username
    THEN complete_request(authenticate(s, s.credentials), NoCreds)
    ELSE Finish(s, MissingCredentials)

resume_handle(s, fetched) ==
    IF fetched.some
    THEN complete_request(authenticate(s, fetched), fetched)
    ELSE IF s.credentials.some /\ ~s.attempt_has_username
    THEN complete_request(authenticate(s, s.credentials), NoCreds)
    ELSE IF s.response.kind = "response"
    THEN Finish(s, s.response)
    ELSE Finish(s, MissingCredentials)

(***************************************************************************)
(* complete_request_with_request_credentials after fetch_credentials has   *)
(* returned `fetched`; `realm` is what the realm fallback finds.           *)
(***************************************************************************)
\* A handler without the realm fallback of a known index.
resume_without_realm_fallback(s, fetched, realm) ==
    IF fetched.some
    THEN complete_request(authenticate(s, fetched), fetched)
    ELSE complete_request(s, s.credentials)

resume_request_credentials(s, fetched, realm) ==
    IF fetched.some
    THEN complete_request(authenticate(s, fetched), fetched)
    ELSE IF IndexOf(s) # NoUrl
    THEN IF realm.some
         THEN complete_request(authenticate(Log(s, "get_realm", realm), realm), realm)
         ELSE complete_request(Log(s, "get_realm", realm), s.credentials)
    ELSE complete_request(s, s.credentials)

Resume(s, fetched) ==
    IF s.ret = "handle"
    THEN {resume_handle(s, fetched)}
    ELSE {resume_request_credentials(s, fetched, realm) :
            realm \in get_realm(RealmOf(s.req.url), s.credentials.username)}

(***************************************************************************)
(* fetch_credentials.                                                      *)
(***************************************************************************)
\* Username::from(credentials.map(|c| c.username().unwrap_or_default().to_string()))
FetchUsername(credentials) ==
    IF ~credentials.some THEN None
    ELSE IF credentials.username = None THEN "" ELSE credentials.username

\* A single-flight key of the request URL, where no index matches.
fetch_key_by_url(s, credentials) ==
    IF IndexOf(s) # NoUrl
    THEN [kind |-> "Index", url |-> IndexOf(s), username |-> FetchUsername(credentials)]
    ELSE [kind |-> "Realm", url |-> s.req.url, username |-> FetchUsername(credentials)]

\* A single-flight key of the realm alone, also for a URL of an index.
fetch_key_by_realm(s, credentials) ==
    [kind |-> "Realm", url |-> Url(RealmOf(s.req.url), <<>>),
     username |-> FetchUsername(credentials)]

\* A single-flight key that leaves out the realm of the request.
fetch_key_without_realm(s, credentials) ==
    [kind |-> "Realm", url |-> NoUrl, username |-> FetchUsername(credentials)]

FetchKey(s, credentials) ==
    IF IndexOf(s) # NoUrl
    THEN [kind |-> "Index", url |-> IndexOf(s), username |-> FetchUsername(credentials)]
    ELSE [kind |-> "Realm", url |-> Url(RealmOf(s.req.url), <<>>),
          username |-> FetchUsername(credentials)]

\* A fetcher that runs the providers whatever register answers.
MustWaitNever(f, key) == FALSE

\* A fetcher that runs the providers again after a fetch that found nothing.
must_wait_unless_failed(f, key) ==
    ~register(f, key) /\ ~(IsDone(f, key) /\ ~SlotValue(f, key).some)

\* A fetcher that joins a published result but not a fetch in progress.
must_wait_when_done(f, key) == IsDone(f, key)

\* if !self.cache().fetches.register(key.clone()) { ... wait ... }
MustWait(f, key) == ~register(f, key)

\* A waiter that drops what it waited for.
wait_result_dropped(f, key) == NoCreds

\* let credentials = self.cache().fetches.wait(&key).await ...; return credentials
wait_result(f, key) == SlotValue(f, key)

Count(c, key) == IF \E e \in c : e.key = key THEN (CHOOSE e \in c : e.key = key).n ELSE 0
Inc(c, key) == {e \in c : e.key # key} \cup {[key |-> key, n |-> Count(c, key) + 1]}

\* The keyring is asked with a username, or without one under `authenticate = always`
\* on a known index.
KeyringWithUsername(credentials) == credentials.some /\ credentials.username # None

\* A keyring rule that asks without a username under any policy.
keyring_without_username_any_policy(s, credentials) == ~KeyringWithUsername(credentials)

KeyringWithoutUsername(s, credentials) ==
    /\ ~KeyringWithUsername(credentials)
    /\ PolicyOf(s) = "Always"
    /\ IndexOf(s) # NoUrl

KeyringAsked(s, credentials) ==
    /\ cfg.keyring.enabled
    /\ (KeyringWithUsername(credentials) \/ KeyringWithoutUsername(s, credentials))

KeyringService(s) == IF IndexOf(s) # NoUrl THEN IndexOf(s) ELSE s.req.url

\* A keyring call that leaves out the username it was given.
keyring_username_dropped(credentials) == None

KeyringUsername(credentials) ==
    IF KeyringWithUsername(credentials) THEN credentials.username ELSE None

NetrcUsername(credentials) == IF credentials.some THEN credentials.username ELSE None

\* A fetcher that publishes nothing, whatever it returns to its caller.
publish_nothing(s, f, c, key, value) ==
    {Ctx(n, done(f, key, NoCreds), c) : n \in Resume(Log(s, "done", value), value)}

\* A fetcher that returns to its caller without calling done.
publish_to_caller_only(s, f, c, key, value) ==
    {Ctx(n, f, c) : n \in Resume(Log(s, "done", value), value)}

\* done(key, value) and the return to the caller.
Publish(s, f, c, key, value) ==
    {Ctx(n, done(f, key, value), c) : n \in Resume(Log(s, "done", value), value)}

\* A chain that asks the keyring before it looks at what netrc returned.
chain_keyring_before_netrc(s, f, c, credentials) ==
    LET known == credentials_for(s.req.url)
        s1 == Log(s, "known", known)
        netrc == IF cfg.netrc.enabled
                 THEN from_netrc(s.req.url, NetrcUsername(credentials)) ELSE NoCreds
        s2 == IF cfg.netrc.enabled THEN Log(s1, "netrc", netrc) ELSE s1
    IN  IF known.some THEN Publish(s1, f, c, s.key, known)
        ELSE IF KeyringAsked(s, credentials)
        THEN {Ctx(Log([s2 EXCEPT !.pc = "keyring"], "keyring", credentials), f, c)}
        ELSE IF netrc.some THEN Publish(s2, f, c, s.key, netrc)
        ELSE Publish(s2, f, c, s.key, NoCreds)

ProviderChain(s, f, c, credentials) ==
    LET known == credentials_for(s.req.url)
        s1 == Log(s, "known", known)
        netrc == IF cfg.netrc.enabled
                 THEN from_netrc(s.req.url, NetrcUsername(credentials)) ELSE NoCreds
        s2 == IF cfg.netrc.enabled THEN Log(s1, "netrc", netrc) ELSE s1
    IN  IF known.some THEN Publish(s1, f, c, s.key, known)
        ELSE IF netrc.some THEN Publish(s2, f, c, s.key, netrc)
        ELSE IF KeyringAsked(s, credentials)
        THEN {Ctx(Log([s2 EXCEPT !.pc = "keyring"], "keyring", credentials), f, c)}
        ELSE Publish(s2, f, c, s.key, NoCreds)

fetch_credentials(s0, f, c, credentials, ret) ==
    LET key == FetchKey(s0, credentials)
        s == Log([s0 EXCEPT !.ret = ret, !.arg = credentials, !.key = key],
                 "fetch_credentials", credentials)
    IN  IF MustWait(f, key)
        THEN {Ctx([(IF IsDone(f, key) THEN s ELSE Log(s, "suspend", NoCreds))
                     EXCEPT !.pc = "wait"], f, c)}
        ELSE ProviderChain(s, Registered(f, key), Inc(c, key), credentials)

(***************************************************************************)
(* complete_request_with_request_credentials, up to its first await.       *)
(***************************************************************************)
CachedForRequest(s, username) ==
    IF IndexOf(s) # NoUrl
    THEN {Event("get_url(index)", x, 0) : x \in get_url(IndexOf(s), username)}
    ELSE {Event("get_realm", x, 0) : x \in get_realm(RealmOf(s.req.url), username)}

request_credentials_lookup(s, f, c, credentials, first) ==
    LET s1 == Log(s, first.op, first.creds)
    IN  IF first.creds.some
        THEN {Ctx(complete_request(authenticate(s1, first.creds), NoCreds), f, c)}
        ELSE UNION {
               LET s2 == Log(s1, "get_url(request)", second)
               IN  IF second.some
                   THEN {Ctx(complete_request(authenticate(s2, second), NoCreds), f, c)}
                   ELSE fetch_credentials(s2, f, c, credentials, "request_credentials")
               : second \in get_url(s.req.url, credentials.username)}

complete_request_with_request_credentials(s, f, c, credentials) ==
    IF credentials.password # None
    THEN {Ctx(complete_request(s, credentials), f, c)}
    ELSE UNION {request_credentials_lookup(s, f, c, credentials, first)
                : first \in CachedForRequest(s, credentials.username)}

(***************************************************************************)
(* handle.                                                                 *)
(***************************************************************************)
\* A probe decision that forgets the policy of the index.
retry_ignoring_policy(policy) == ~cfg.only_authenticated

\* A probe decision that forgets only_authenticated.
retry_unless_always(policy) == policy # "Always"

\* !self.only_authenticated && !matches!(auth_policy, AuthPolicy::Always)
retry_unauthenticated(policy) == ~cfg.only_authenticated /\ policy # "Always"

\* A status test that does not take 404 for an authentication failure.
auth_failure_without_404(status) == status \in {FORBIDDEN, UNAUTHORIZED}

\* matches!(status, FORBIDDEN | NOT_FOUND | UNAUTHORIZED)
IsAuthFailure(status) == status \in {FORBIDDEN, NOT_FOUND, UNAUTHORIZED}

\* A handler that returns whatever the probe was answered.
probe_always_returned(policy, status) == TRUE

\* A handler that searches for credentials after a server error too.
probe_returned_unless_error(policy, status) == ~error_for_status(status) \/ policy = "Never"

\* A handler that searches after a failed probe under Never too.
probe_returned_unless_auth_failure(policy, status) == ~IsAuthFailure(status)

\* The probe's response is returned as it is.
ReturnsProbe(policy, status) == ~IsAuthFailure(status) \/ policy = "Never"

\* A lookup by index URL alone, without the realm.
index_lookup_only(s, username) ==
    IF IndexOf(s) # NoUrl
    THEN {<<Event("get_url(index)", a, 0)>> : a \in get_url(IndexOf(s), username)}
    ELSE {<<Event("get_realm", NoCreds, 0)>>}

\* The search for credentials: the cache by index URL or realm, then the providers.
IndexOrRealm(s, username) ==
    IF IndexOf(s) # NoUrl
    THEN UNION {IF a.some THEN {<<Event("get_url(index)", a, 0)>>}
                ELSE {<<Event("get_url(index)", a, 0), Event("get_realm", b, 0)>>
                        : b \in get_realm(RealmOf(s.req.url), username)}
                : a \in get_url(IndexOf(s), username)}
    ELSE {<<Event("get_realm", b, 0)>> : b \in get_realm(RealmOf(s.req.url), username)}

search_with(s, f, c, lookups) ==
    LET found == lookups[Len(lookups)].creds
        credentials == IF found.some THEN found ELSE s.credentials
        s1 == [s EXCEPT !.credentials = credentials, !.log = @ \o lookups]
    IN  IF credentials.some /\ credentials.password # None
        THEN {Ctx(complete_request(authenticate(s1, credentials), NoCreds), f, c)}
        ELSE fetch_credentials(s1, f, c, credentials, "handle")

search(s, f, c) ==
    UNION {search_with(s, f, c, lookups)
           : lookups \in IndexOrRealm(s, IF s.credentials.some
                                         THEN s.credentials.username ELSE None)}

\* A first attempt that sends the probe without keeping a clone.
first_attempt_without_clone(s, f, c) ==
    IF retry_unauthenticated(PolicyOf(s))
    THEN {Ctx(Log([s EXCEPT !.pc = "probe"], "send", from_request(s.header)), f, c)}
    ELSE search(s, f, c)

\* The first attempt: a probe when one is allowed, the search otherwise.
first_attempt(s, f, c) ==
    IF retry_unauthenticated(PolicyOf(s))
    THEN IF ~s.req.cloneable
         THEN {Ctx(Finish(s, NotCloneable), f, c)}
         ELSE {Ctx(Log([s EXCEPT !.pc = "probe"], "send", from_request(s.header)), f, c)}
    ELSE search(s, f, c)

\* A lookup whose entry is attached but never ends the first attempt.
with_url_credentials_probing(s, f, c, cached) ==
    LET s1 == Log(s, "get_url(request)", cached)
        s2 == IF cached.some
              THEN authenticate([s1 EXCEPT !.credentials = cached], cached) ELSE s1
    IN  first_attempt([s2 EXCEPT !.attempt_has_username =
                           cached.some /\ cached.username # None], f, c)

with_url_credentials(s, f, c, cached) ==
    LET s1 == Log(s, "get_url(request)", cached)
        s2 == IF cached.some
              THEN authenticate([s1 EXCEPT !.credentials = cached], cached) ELSE s1
    IN  IF cached.some /\ cached.password # None
        THEN {Ctx(complete_request(s2, NoCreds), f, c)}
        ELSE first_attempt([s2 EXCEPT !.attempt_has_username =
                                cached.some /\ cached.username # None], f, c)

handle(s, f, c) ==
    LET request_credentials == from_request(s.req.header)
    IN  IF PolicyOf(s) = "Never"
        THEN first_attempt(s, f, c)
        ELSE IF request_credentials.some
        THEN complete_request_with_request_credentials(
                 [s EXCEPT !.credentials = request_credentials], f, c, request_credentials)
        ELSE UNION {with_url_credentials(s, f, c, cached)
                    : cached \in get_url(s.req.url, None)}

(***************************************************************************)
(* The universe of the model.                                              *)
(***************************************************************************)
IndexUrl == Url("A", <<"i", "s">>)
IndexRoot == Url("A", <<"i">>)
UnderRoot == Url("A", <<"i", "f">>)
Outside == Url("A", <<"x">>)

Policies == {"Auto", "Always", "Never"}

\* The providers of a run: none; netrc and keyring both holding user u;
\* a keyring alone; the known provider in front of both.
NoNetrc == [enabled |-> FALSE, entries |-> {}]
NoKeyring == [enabled |-> FALSE, entries |-> {}]
NetrcU == [enabled |-> TRUE, entries |-> {[host |-> "A", login |-> "u", password |-> "p"]}]
NetrcEmpty == [enabled |-> TRUE, entries |-> {}]
KeyringU ==
    [enabled |-> TRUE,
     entries |-> {[kind |-> "host", realm |-> "A", path |-> <<>>,
                   username |-> "u", password |-> "k"]}]

Providers ==
    {[netrc |-> NoNetrc, keyring |-> NoKeyring, known |-> {}],
     [netrc |-> NetrcU, keyring |-> KeyringU, known |-> {}],
     [netrc |-> NetrcEmpty, keyring |-> KeyringU, known |-> {}],
     [netrc |-> NetrcU, keyring |-> KeyringU, known |-> {"A"}]}

Config(only, indexes, prov) ==
    [only_authenticated |-> only, indexes |-> indexes,
     netrc |-> prov.netrc, keyring |-> prov.keyring, known |-> prov.known]

Registries ==
    {<<>>} \cup {<<Index(IndexUrl, IndexRoot, policy)>> : policy \in Policies}

Statuses == {200, 304, 401, 403, 404, 500}

\* The test server: 200 for the basic-auth credentials it was started with,
\* on the paths it was started for, 401 for anything else.
Accepts(s) ==
    \E v \in world.valid :
       /\ v.realm = RealmOf(s.req.url)
       /\ IsPrefix(v.path, s.req.url.path)
       /\ v.header = s.header

\* What next.run may return for the request as it is sent: anything from an
\* arbitrary server, the test server's answer otherwise.
Outcomes(s) ==
    IF world.server = "auth"
    THEN {Response(IF Accepts(s) THEN 200 ELSE UNAUTHORIZED)}
    ELSE {Response(n) : n \in world.statuses} \cup world.errors

(***************************************************************************)
(* The initial states: any configuration, an empty cache, one client.     *)
(***************************************************************************)
Start0 ==
    /\ url_map = {}
    /\ realm_map = {}
    /\ fetches = {}
    /\ nreq = 0
    /\ nseed = 0
    /\ chains = {}
    /\ trail = <<>>

Init ==
    /\ cfg \in {Config(only, indexes, prov) :
                  only \in BOOLEAN, indexes \in Registries, prov \in Providers}
    /\ world = [clients |-> {1},
                requests |-> {Request(url, header, cloneable) :
                                url \in {IndexUrl, UnderRoot, Outside},
                                header \in {NoHeader, Basic("u", ""), Basic("u", "p")},
                                cloneable \in BOOLEAN},
                seeds |-> {Creds("u", None), Creds("u", "q")},
                seed_urls |-> {IndexRoot, Outside},
                server |-> "any",
                valid |-> {},
                history |-> FALSE,
                statuses |-> Statuses,
                errors |-> {TransportError}]
    /\ h = [p \in world.clients |-> Idle]
    /\ Start0

(***************************************************************************)
(* The actions.                                                            *)
(***************************************************************************)
Leave(p, x) ==
    /\ h' = [h EXCEPT ![p] = x.s]
    /\ fetches' = x.f
    /\ chains' = x.c

\* The history of a run: one entry per finished call (its locals as it
\* returned), per insert by the caller and per fresh start.
Record(entry) == IF world.history THEN Append(trail, entry) ELSE trail

Seeded(url, c) == [Idle EXCEPT !.pc = "seed", !.req = Request(url, NoHeader, TRUE), !.ins = c]

\* A client calls handle(request); it runs up to its first await.
Start(p) ==
    /\ h[p].pc = "idle"
    /\ nreq < MaxRequests
    /\ nreq' = nreq + 1
    /\ \E req \in world.requests :
         \E x \in handle([Idle EXCEPT !.req = req, !.header = req.header], fetches, chains) :
            Leave(p, x)
    /\ UNCHANGED <<cfg, world, url_map, realm_map, nseed, trail>>

\* A probe whose transport error starts the search for credentials.
probe_error_searched(p) ==
    /\ h[p].pc = "probe"
    /\ \E outcome \in Outcomes(h[p]) :
         LET s == [h[p] EXCEPT !.log = Append(@, Event("response", NoCreds, outcome.status))]
         IN  IF outcome.kind = "response" /\ ReturnsProbe(PolicyOf(s), outcome.status)
             THEN Leave(p, Ctx(Finish(s, outcome), fetches, chains))
             ELSE \E x \in search([s EXCEPT !.response = outcome], fetches, chains) :
                     Leave(p, x)
    /\ UNCHANGED <<cfg, world, url_map, realm_map, nreq, nseed, trail>>

\* The probe's next.run returns.
ProbeReturn(p) ==
    /\ h[p].pc = "probe"
    /\ \E outcome \in Outcomes(h[p]) :
         LET s == [h[p] EXCEPT !.log = Append(@, Event("response", NoCreds, outcome.status))]
         IN  IF outcome.kind = "transport"
             THEN Leave(p, Ctx(Finish(s, outcome), fetches, chains))
             ELSE IF ReturnsProbe(PolicyOf(s), outcome.status)
             THEN Leave(p, Ctx(Finish(s, outcome), fetches, chains))
             ELSE \E x \in search([s EXCEPT !.response = outcome], fetches, chains) :
                     Leave(p, x)
    /\ UNCHANGED <<cfg, world, url_map, realm_map, nreq, nseed, trail>>

\* complete_request: next.run returns; the credentials are cached on success.
SendReturn(p) ==
    /\ h[p].pc = "send"
    /\ \E outcome \in Outcomes(h[p]) :
         LET s == [h[p] EXCEPT !.log = Append(@, Event("response", NoCreds, outcome.status))]
         IN  /\ h' = [h EXCEPT ![p] = Finish(s, outcome)]
             /\ IF s.ins.some /\ ShouldCache(outcome)
                THEN /\ url_map' = InsertUrl(url_map, s.req.url, s.ins)
                     /\ realm_map' = InsertRealm(realm_map, RealmOf(s.req.url), s.ins)
                ELSE UNCHANGED <<url_map, realm_map>>
    /\ UNCHANGED <<cfg, world, fetches, nreq, nseed, chains, trail>>

\* keyring.fetch returns to the elected fetcher, which publishes the result.
KeyringReturn(p) ==
    /\ h[p].pc = "keyring"
    /\ \E value \in keyring_fetch(KeyringService(h[p]), KeyringUsername(h[p].arg)) :
         \E x \in Publish(h[p], fetches, chains, h[p].key, value) : Leave(p, x)
    /\ UNCHANGED <<cfg, world, url_map, realm_map, nreq, nseed, trail>>

\* fetches.wait(key) returns the published value.
WaitReturn(p) ==
    /\ h[p].pc = "wait"
    /\ IsDone(fetches, h[p].key)
    /\ \E n \in Resume(Log(h[p], "wait", wait_result(fetches, h[p].key)),
                       wait_result(fetches, h[p].key)) :
         h' = [h EXCEPT ![p] = n]
    /\ UNCHANGED <<cfg, world, url_map, realm_map, fetches, nreq, nseed, chains, trail>>

\* handle has returned; its locals are dropped.
Return(p) ==
    /\ h[p].pc = "done"
    /\ h' = [h EXCEPT ![p] = Idle]
    /\ trail' = Record(h[p])
    /\ UNCHANGED <<cfg, world, url_map, realm_map, fetches, nreq, nseed, chains>>

\* The caller seeds the cache between calls: cache.insert(url, credentials).
Seed ==
    /\ nseed < MaxSeeds
    /\ nreq < MaxRequests
    /\ \A p \in world.clients : h[p].pc = "idle"
    /\ nseed' = nseed + 1
    /\ \E url \in world.seed_urls, c \in world.seeds :
         /\ url_map' = InsertUrl(url_map, url, c)
         /\ realm_map' = InsertRealm(realm_map, RealmOf(url), c)
         /\ trail' = Record(Seeded(url, c))
    /\ UNCHANGED <<cfg, world, fetches, h, nreq, chains>>

Next ==
    \/ \E p \in world.clients : Start(p)
    \/ \E p \in world.clients : ProbeReturn(p)
    \/ \E p \in world.clients : SendReturn(p)
    \/ \E p \in world.clients : KeyringReturn(p)
    \/ \E p \in world.clients : WaitReturn(p)
    \/ \E p \in world.clients : Return(p)
    \/ Seed

Spec == Init /\ [][Next]_vars

(***************************************************************************)
(* Concurrent requests: two clients share the cache and the keyring.       *)
(***************************************************************************)
Clients == {1, 2}

InitConc ==
    /\ cfg \in {Config(only, indexes, prov) :
                  only \in BOOLEAN,
                  indexes \in {<<>>, <<Index(IndexUrl, IndexRoot, "Always")>>},
                  prov \in {[netrc |-> NetrcEmpty, keyring |-> KeyringU, known |-> {}],
                            [netrc |-> NetrcU, keyring |-> KeyringU, known |-> {}]}}
    /\ world = [clients |-> Clients,
                requests |-> {Request(url, header, TRUE) :
                                url \in {IndexUrl, Outside},
                                header \in {NoHeader, Basic("u", "")}},
                seeds |-> {Creds("u", None)},
                seed_urls |-> {Outside},
                server |-> "any",
                valid |-> {},
                history |-> FALSE,
                statuses |-> {200, 401},
                errors |-> {}]
    /\ h = [p \in world.clients |-> Idle]
    /\ Start0

SpecConc == InitConc /\ [][Next]_vars

\* Every HTTP send and provider call returns, a woken task is polled, and
\* no call is cancelled.
FairSpecConc ==
    InitConc /\ [][Next]_vars
        /\ \A p \in Clients :
              /\ WF_vars(ProbeReturn(p)) /\ WF_vars(SendReturn(p))
              /\ WF_vars(KeyringReturn(p)) /\ WF_vars(WaitReturn(p))

(***************************************************************************)
(* Cancellation: the future of a call of handle is dropped at an await.    *)
(* Nothing runs for it any more; a slot it registered stays as it is,      *)
(* since only done(key, value) publishes.                                  *)
(***************************************************************************)
InFlight(p) == h[p].pc \in {"probe", "send", "keyring", "wait"}

Cancel(p) ==
    /\ InFlight(p)
    /\ h' = [h EXCEPT ![p].pc = "cancelled"]
    /\ UNCHANGED <<cfg, world, url_map, realm_map, fetches, nreq, nseed, chains, trail>>

NextCancel ==
    \/ Next
    \/ \E p \in world.clients : Cancel(p)

\* Every HTTP send and provider call returns, and a woken task is polled.
Progress(p) == ProbeReturn(p) \/ SendReturn(p) \/ KeyringReturn(p) \/ WaitReturn(p)

FairSpecCancel ==
    InitConc /\ [][NextCancel]_vars /\ \A p \in Clients : WF_vars(Progress(p))

(***************************************************************************)
(* The end-to-end setting of the tests: one test server per realm, each    *)
(* started with its own password for user u; the history of the run is     *)
(* kept.                                                                   *)
(***************************************************************************)
UrlB == Url("B", <<"x">>)

ServerA == [realm |-> "A", path |-> <<>>, header |-> Basic("u", "p")]
ServerB == [realm |-> "B", path |-> <<>>, header |-> Basic("u", "b")]

NetrcAB ==
    [enabled |-> TRUE,
     entries |-> {[host |-> "A", login |-> "u", password |-> "p"],
                  [host |-> "B", login |-> "u", password |-> "b"]}]

KeyringAB ==
    [enabled |-> TRUE,
     entries |-> {[kind |-> "host", realm |-> "A", path |-> <<>>,
                   username |-> "u", password |-> "p"],
                  [kind |-> "host", realm |-> "B", path |-> <<>>,
                   username |-> "u", password |-> "b"]}]

InitServer ==
    /\ cfg \in {Config(only, indexes, prov) :
                  only \in BOOLEAN,
                  indexes \in Registries,
                  prov \in {[netrc |-> NoNetrc, keyring |-> NoKeyring, known |-> {}],
                            [netrc |-> NetrcAB, keyring |-> NoKeyring, known |-> {}],
                            [netrc |-> NetrcEmpty, keyring |-> KeyringAB, known |-> {}]}}
    /\ world = [clients |-> {1},
                requests |-> {Request(url, header, TRUE) :
                                url \in {IndexUrl, Outside, UrlB},
                                header \in {NoHeader, Basic("u", ""), Basic("u", "p"),
                                            Basic("u", "bad"), Basic("v", "")}},
                seeds |-> {Creds("u", None), Creds("u", "p")},
                seed_urls |-> {Outside, UrlB},
                server |-> "auth",
                valid |-> {ServerA, ServerB},
                history |-> TRUE,
                statuses |-> {200, UNAUTHORIZED},
                errors |-> {}]
    /\ h = [p \in world.clients |-> Idle]
    /\ Start0

SpecServer == InitServer /\ [][Next]_vars

(***************************************************************************)
(* Two runs against the same test server: after the first run the caller   *)
(* builds a fresh middleware with a new, empty cache and the same          *)
(* configuration, and runs again.  The trail keeps both runs, with an      *)
(* entry "fresh" between them.                                             *)
(***************************************************************************)
Fresh == [Idle EXCEPT !.pc = "fresh"]

Reset ==
    /\ \A p \in world.clients : h[p].pc = "idle"
    /\ trail # <<>>
    /\ \A i \in 1..Len(trail) : trail[i] # Fresh
    /\ url_map' = {}
    /\ realm_map' = {}
    /\ fetches' = {}
    /\ chains' = {}
    /\ nreq' = 0
    /\ nseed' = 0
    /\ trail' = Record(Fresh)
    /\ UNCHANGED <<cfg, world, h>>

NextPair ==
    \/ Next
    \/ Reset

InitPair ==
    /\ cfg \in {Config(only, indexes, prov) :
                  only \in BOOLEAN,
                  indexes \in {<<>>, <<Index(IndexUrl, IndexRoot, "Always")>>,
                               <<Index(IndexUrl, IndexRoot, "Never")>>},
                  prov \in {[netrc |-> NoNetrc, keyring |-> NoKeyring, known |-> {}],
                            [netrc |-> NetrcAB, keyring |-> NoKeyring, known |-> {}],
                            [netrc |-> NetrcEmpty, keyring |-> KeyringAB, known |-> {}]}}
    /\ world = [clients |-> {1},
                requests |-> {Request(url, header, TRUE) :
                                url \in {IndexUrl, Outside},
                                header \in {NoHeader, Basic("u", "p"), Basic("u", "bad")}},
                seeds |-> {Creds("u", "p"), Creds("u", "bad")},
                seed_urls |-> {Outside},
                server |-> "auth",
                valid |-> {ServerA},
                history |-> TRUE,
                statuses |-> {200, UNAUTHORIZED},
                errors |-> {}]
    /\ h = [p \in world.clients |-> Idle]
    /\ Start0

SpecPair == InitPair /\ [][NextPair]_vars

(***************************************************************************)
(* Two indexes in one realm: one server that takes user u with password p  *)
(* under /1 and with password q under /2, the keyring holding an entry for *)
(* each of the two URLs; with both URLs registered as indexes, or with no  *)
(* index at all.                                                           *)
(***************************************************************************)
Prefix1 == Url("A", <<"1">>)
Prefix2 == Url("A", <<"2">>)

Server1 == [realm |-> "A", path |-> Prefix1.path, header |-> Basic("u", "p")]
Server2 == [realm |-> "A", path |-> Prefix2.path, header |-> Basic("u", "q")]

KeyringPrefixes ==
    [enabled |-> TRUE,
     entries |-> {[kind |-> "url", realm |-> "A", path |-> Prefix1.path,
                   username |-> "u", password |-> "p"],
                  [kind |-> "url", realm |-> "A", path |-> Prefix2.path,
                   username |-> "u", password |-> "q"]}]

TwoIndexes(policy) ==
    <<Index(Prefix1, Prefix1, policy), Index(Prefix2, Prefix2, policy)>>

InitIndexes ==
    /\ cfg \in {Config(only, indexes, prov) :
                  only \in BOOLEAN,
                  indexes \in {<<>>, TwoIndexes("Auto"), TwoIndexes("Always")},
                  prov \in {[netrc |-> NoNetrc, keyring |-> KeyringPrefixes, known |-> {}],
                            [netrc |-> NetrcEmpty, keyring |-> KeyringPrefixes, known |-> {}]}}
    /\ world = [clients |-> {1},
                requests |-> {Request(url, header, TRUE) :
                                url \in {Prefix1, Prefix2,
                                         Url("A", <<"1", "f">>), Url("A", <<"2", "f">>)},
                                header \in {NoHeader, Basic("u", "")}},
                seeds |-> {Creds("u", "b")},
                seed_urls |-> {UrlB},
                server |-> "auth",
                valid |-> {Server1, Server2},
                history |-> TRUE,
                statuses |-> {200, UNAUTHORIZED},
                errors |-> {}]
    /\ h = [p \in world.clients |-> Idle]
    /\ Start0

SpecIndexes == InitIndexes /\ [][Next]_vars

(***************************************************************************)
(* History read off the log of a call.                                     *)
(***************************************************************************)
Ops(s, op) == {i \in 1..Len(s.log) : s.log[i].op = op}
Did(s, op) == Ops(s, op) # {}
Sends(s) == Cardinality(Ops(s, "send"))

(***************************************************************************)
(* C1: for every single-flight key (Index(url) or Realm(realm), with the   *)
(* username) the provider chain is executed at most once, however many     *)
(* concurrent or successive calls of fetch_credentials use the key, and at *)
(* most one keyring call for the key is in progress.                       *)
(***************************************************************************)
C1_ChainAtMostOnce ==
    /\ \A e \in chains : e.n <= 1
    /\ \A p, q \in world.clients :
         (p # q /\ h[p].pc = "keyring" /\ h[q].pc = "keyring") => h[p].key # h[q].key

\* One caller is in its keyring call while another waits on the same key.
C1_Witness ==
    \E p, q \in world.clients :
       /\ h[p].pc = "keyring"
       /\ h[q].pc = "wait"
       /\ h[p].key = h[q].key
       /\ Count(chains, h[p].key) = 1

(***************************************************************************)
(* C2: a caller for which register(key) returned false returns from        *)
(* fetch_credentials only after done(key, value), and with that value.     *)
(***************************************************************************)
C2_WaiterGetsPublished ==
    \A p \in world.clients :
       \A i \in Ops(h[p], "wait") :
          /\ IsDone(fetches, h[p].key)
          /\ h[p].log[i].creds = SlotValue(fetches, h[p].key)

\* A caller that found the slot still waiting has returned with published credentials.
C2_Witness ==
    \E p \in world.clients :
       /\ Did(h[p], "suspend")
       /\ \E i \in Ops(h[p], "wait") : h[p].log[i].creds.some

(***************************************************************************)
(* C3: when the elected fetcher is cancelled between register and done,    *)
(* every request waiting on the key eventually returns from                *)
(* fetch_credentials (as if no credentials were found).                    *)
(***************************************************************************)
C3_WaitersReturn ==
    \A p \in Clients : (h[p].pc = "wait") ~> (h[p].pc # "wait")

(***************************************************************************)
(* C4: for a URL of policy Never, whatever only_authenticated and the      *)
(* cache are, handle never calls fetch_credentials and never sets or       *)
(* changes the Authorization header of a request it sends.                 *)
(***************************************************************************)
C4_NeverLeavesRequestAlone ==
    \A p \in world.clients :
       (PolicyOf(h[p]) = "Never" /\ h[p].pc # "idle") =>
          /\ ~Did(h[p], "fetch_credentials")
          /\ h[p].header = h[p].req.header

(***************************************************************************)
(* C5: for a URL of policy Never handle sends the request exactly once and *)
(* returns what that send returned; it never fails with MissingCredentials,*)
(* MissingPassword or NotCloneable.                                        *)
(***************************************************************************)
C5_NeverSendsOnce ==
    \A p \in world.clients :
       (PolicyOf(h[p]) = "Never" /\ h[p].pc = "done") =>
          /\ Sends(h[p]) = 1
          /\ h[p].result.kind \in {"response", "transport"}

(***************************************************************************)
(* C6: for a URL of policy Always, when neither the request, nor the       *)
(* cache, nor the providers hold a password, handle sends no request (it   *)
(* fails with MissingCredentials or MissingPassword), also when the cache  *)
(* holds a username-only entry.                                            *)
(***************************************************************************)
NoPasswordAnywhere(s) ==
    /\ s.req.header.pass = ""
    /\ \A e \in url_map : e.creds.password = None
    /\ \A e \in realm_map : e.creds.password = None
    /\ \A e \in fetches : ~e.value.some
    /\ ~cfg.netrc.enabled /\ ~cfg.keyring.enabled /\ cfg.known = {}

C6_AlwaysWithoutPasswordSendsNothing ==
    \A p \in world.clients :
       (PolicyOf(h[p]) = "Always" /\ h[p].pc # "idle" /\ NoPasswordAnywhere(h[p])) =>
          /\ Sends(h[p]) = 0
          /\ h[p].pc = "done" => h[p].result \in {MissingCredentials, MissingPassword}

(***************************************************************************)
(* C7: under policy Always, or with only_authenticated set, every request  *)
(* handle sends carries an Authorization header.                           *)
(***************************************************************************)
C7_NoUnauthenticatedSend ==
    \A p \in world.clients :
       ((PolicyOf(h[p]) = "Always" \/ cfg.only_authenticated)
          /\ h[p].pc \in {"probe", "send"}) => h[p].header.some

\* Under Always a request that arrived bare is being sent with discovered credentials.
C7_Witness ==
    \E p \in world.clients :
       /\ PolicyOf(h[p]) = "Always"
       /\ ~cfg.only_authenticated
       /\ h[p].pc = "send"
       /\ ~h[p].req.header.some
       /\ h[p].header.some

(***************************************************************************)
(* C8: a request that arrives with a username and a password is sent      *)
(* exactly once, with the Authorization header it arrived with; no cache   *)
(* lookup and no fetch_credentials happens for it.                         *)
(***************************************************************************)
HasPassword(header) == header.some /\ header.user # "" /\ header.pass # ""

C8_AttachedCredentialsWin ==
    \A p \in world.clients :
       (HasPassword(h[p].req.header) /\ h[p].pc # "idle") =>
          /\ h[p].header = h[p].req.header
          /\ ~Did(h[p], "get_url(index)") /\ ~Did(h[p], "get_url(request)")
          /\ ~Did(h[p], "get_realm") /\ ~Did(h[p], "fetch_credentials")
          /\ h[p].pc = "done" => Sends(h[p]) = 1

(***************************************************************************)
(* C9: every entry handle puts into url_map or realm_map holds the         *)
(* credentials carried by a request handle sent, and is put there when the *)
(* response to it has arrived and is no client or server error: never      *)
(* before the response, after a transport error or after a 4xx/5xx.        *)
(***************************************************************************)
CacheChanges == url_map' # url_map \/ realm_map' # realm_map

Completes(p) == h[p].pc = "send" /\ h'[p].pc = "done"

C9_InsertOnlyAfterSuccess ==
    [][(CacheChanges /\ nseed' = nseed) =>
         \E p \in world.clients :
            /\ Completes(p)
            /\ h'[p].result.kind = "response"
            /\ h'[p].result.status < 400
            /\ \E c \in {h[p].ins} :
                 /\ c.some
                 /\ to_header(c) = h[p].header
                 /\ url_map' \subseteq url_map \cup {UrlEntry(h[p].req.url, c)}
                 /\ realm_map' \subseteq realm_map \cup {RealmEntry(RealmOf(h[p].req.url), c)}]_vars

\* A call has returned a success and its credentials are in the cache.
C9_Witness ==
    \E p \in world.clients :
       /\ h[p].pc = "done"
       /\ h[p].result = Response(200)
       /\ h[p].ins.some
       /\ UrlEntry(h[p].req.url, h[p].ins) \in url_map
       /\ nseed = 0

(***************************************************************************)
(* C10 as stated: handle inserts into the cache only when the response     *)
(* status is in 200..299.                                                  *)
(***************************************************************************)
C10_OnlyOn2xx ==
    [][(CacheChanges /\ nseed' = nseed) =>
         \E p \in world.clients :
            Completes(p) /\ h'[p].result.status \in 200..299]_vars

(***************************************************************************)
(* C10, amended: handle inserts the credentials it completes a request     *)
(* with exactly when the response is no client or server error (its status *)
(* is outside 400..599, so also on a 3xx); after a 4xx or 5xx response or  *)
(* a transport error the cache is left as it was.                          *)
(***************************************************************************)
C10_InsertUnlessErrorStatus ==
    [][\A p \in world.clients :
         Completes(p) =>
            IF /\ h[p].ins.some
               /\ h'[p].result.kind = "response"
               /\ ~(h'[p].result.status \in 400..599)
            THEN UrlEntry(h[p].req.url, h[p].ins) \in url_map'
            ELSE UNCHANGED <<url_map, realm_map>>]_vars

\* A 304 response has been followed by the insertion of the request's credentials.
C10_Witness ==
    \E p \in world.clients :
       /\ h[p].pc = "done"
       /\ h[p].result = Response(304)
       /\ h[p].ins.some
       /\ UrlEntry(h[p].req.url, h[p].ins) \in url_map
       /\ nseed = 0

(***************************************************************************)
(* C11: under policy Auto, when the probe has been answered, the search    *)
(* for credentials (cache lookup by index URL or realm, fetch_credentials, *)
(* retry) starts exactly when the status is 401, 403 or 404; after any     *)
(* other answer handle returns the probe's result at once: no lookup, no   *)
(* provider call, no second send, no change of the cache.                  *)
(***************************************************************************)
ProbeAnswered(p) == h[p].pc = "probe" /\ h'[p].pc \notin {"probe", "cancelled"}

C11_DiscoveryIffAuthFailure ==
    [][\A p \in world.clients :
         (ProbeAnswered(p) /\ PolicyOf(h[p]) = "Auto") =>
            LET n == Len(h[p].log)
                answer == h'[p].log[n + 1]
            IN  IF answer.status \in {UNAUTHORIZED, FORBIDDEN, NOT_FOUND}
                THEN /\ Len(h'[p].log) > n + 1
                     /\ h'[p].log[n + 2].op \in {"get_url(index)", "get_realm"}
                ELSE /\ h'[p].pc = "done"
                     /\ h'[p].result.kind \in {"response", "transport"}
                     /\ h'[p].result.status = answer.status
                     /\ h'[p].log = Append(h[p].log, answer)
                     /\ UNCHANGED <<url_map, realm_map, fetches, chains>>]_vars

\* A probe answered 404 was followed by fetch_credentials and a second send.
C11_Witness ==
    \E p \in world.clients :
       /\ PolicyOf(h[p]) = "Auto"
       /\ Sends(h[p]) = 2
       /\ \E i \in Ops(h[p], "response") : h[p].log[i].status = NOT_FOUND
       /\ Did(h[p], "fetch_credentials")

(***************************************************************************)
(* C12: the credentials handle passes to the cache insert are never ones   *)
(* it got from get_url or get_realm: they are the credentials of the       *)
(* request itself or the ones fetch_credentials returned, on every path.   *)
(***************************************************************************)
C12_NoReinsertFromCache ==
    \A p \in world.clients :
       (h[p].pc = "done" /\ ShouldCache(h[p].result) /\ h[p].ins.some) =>
          \/ h[p].ins = from_request(h[p].req.header)
          \/ \E i \in Ops(h[p], "done") \cup Ops(h[p], "wait") : h[p].log[i].creds = h[p].ins

(***************************************************************************)
(* C17: in one execution of the provider chain the providers are asked in  *)
(* the order known provider, netrc, keyring, and the chain stops at the    *)
(* first that returns credentials: netrc is asked only after the known     *)
(* provider returned nothing, the keyring only after both returned         *)
(* nothing, and what the first one found is what is published.             *)
(***************************************************************************)
Found(s, op) == \E i \in Ops(s, op) : s.log[i].creds.some

AskedBefore(s, op, i) == \E j \in Ops(s, op) : j < i /\ ~s.log[j].creds.some

C17_ProviderOrder ==
    \A p \in world.clients :
       LET s == h[p]
       IN  /\ \A i \in Ops(s, "netrc") : AskedBefore(s, "known", i)
           /\ \A i \in Ops(s, "keyring") :
                /\ AskedBefore(s, "known", i)
                /\ cfg.netrc.enabled => AskedBefore(s, "netrc", i)
                /\ ~Found(s, "netrc")
           /\ \A i \in Ops(s, "known") \cup Ops(s, "netrc") :
                s.log[i].creds.some =>
                   /\ i < Len(s.log)
                   /\ s.log[i + 1] = Event("done", s.log[i].creds, 0)
                   /\ ~Did(s, "keyring")

\* The keyring is being asked after the known provider and netrc returned nothing.
C17_Witness ==
    \E p \in world.clients :
       /\ h[p].pc = "keyring"
       /\ Did(h[p], "known") /\ Did(h[p], "netrc")
       /\ ~Found(h[p], "known") /\ ~Found(h[p], "netrc")

(***************************************************************************)
(* C18: the keyring is called only (a) with the username of the            *)
(* credentials passed to fetch_credentials, or (b) without a username when *)
(* the policy is Always and the URL matches a known index; under Auto a    *)
(* request without a username never causes a keyring call.                 *)
(***************************************************************************)
C18_KeyringOnlyWhen ==
    \A p \in world.clients :
       \A i \in Ops(h[p], "keyring") :
          LET c == h[p].log[i].creds
          IN  \/ c.some /\ c.username # None /\ KeyringUsername(c) = c.username
              \/ /\ PolicyOf(h[p]) = "Always"
                 /\ IndexOf(h[p]) # NoUrl
                 /\ KeyringUsername(c) = None

\* Under Always, on a known index, the keyring is being asked without a username.
C18_Witness ==
    \E p \in world.clients :
       /\ h[p].pc = "keyring"
       /\ PolicyOf(h[p]) = "Always"
       /\ ~h[p].arg.some

(***************************************************************************)
(* C19: for a request that arrives with a username V and no password,      *)
(* every request handle sends for it carries credentials of username V,    *)
(* whichever source supplied the password.                                 *)
(***************************************************************************)
UsernameOnly(header) == header.some /\ header.user # "" /\ header.pass = ""

C19_SentUsernameIsRequested ==
    \A p \in world.clients :
       UsernameOnly(h[p].req.header) =>
          \A i \in Ops(h[p], "send") : h[p].log[i].creds.username = h[p].req.header.user

(***************************************************************************)
(* C20: when the cache holds an entry under a prefix of the request URL    *)
(* and an entry of the realm, of the same username and with different      *)
(* passwords, a request without a password is sent with the credentials of *)
(* the URL-prefix entry.                                                   *)
(***************************************************************************)
LookupUsername(header) == from_request(header).username

C20_UrlEntryOverRealm ==
    \A p \in world.clients :
       LET s == h[p]
           byUrl == get_url(s.req.url, LookupUsername(s.req.header))
           byRealm == get_realm(RealmOf(s.req.url), LookupUsername(s.req.header))
       IN  ( /\ s.pc = "send"
             /\ PolicyOf(s) # "Never"
             /\ s.req.header.pass = ""
             /\ \A c \in byUrl : c.some /\ c.password # None
             /\ \A c \in byRealm : c.some /\ c.password # None
             /\ \A c \in byUrl : \A d \in byRealm :
                  c.username = d.username /\ c.password # d.password )
           => from_request(s.header) \in byUrl

(***************************************************************************)
(* History read off the trail of a run.                                    *)
(***************************************************************************)
Earlier == {trail[i] : i \in 1..Len(trail)}

Calls(realm) == {e \in Earlier : e.pc = "done" /\ RealmOf(e.req.url) = realm}
Seeds(realm) == {e \in Earlier : e.pc = "seed" /\ RealmOf(e.req.url) = realm}

\* The test server of the realm takes the header.
Valid(realm, header) == \E v \in world.valid : v.realm = realm /\ v.header = header

\* The request arrived without credentials.
Bare(s) == ~s.req.header.some

AskedProviders(s) == Did(s, "known") \/ Did(s, "netrc") \/ Did(s, "keyring")

(***************************************************************************)
(* C13: after requests that carried invalid credentials in their URL, a    *)
(* request to the same realm without credentials still ends with the valid *)
(* credentials attached, and answered 200, whenever the providers supply   *)
(* them for it; credentials that came with a request and were refused by   *)
(* the server are never attached to a later request without credentials.   *)
(***************************************************************************)
InvalidInUrl(e) == HasPassword(e.req.header) /\ ~Valid(RealmOf(e.req.url), e.req.header)

\* The provider chain, run for the request without credentials, returns
\* credentials the server takes: from netrc, or from the keyring asked
\* without a username.
ProvidersSupply(s) ==
    /\ PolicyOf(s) # "Never"
    /\ \/ /\ cfg.netrc.enabled
          /\ from_netrc(s.req.url, None).some
          /\ Valid(RealmOf(s.req.url), to_header(from_netrc(s.req.url, None)))
       \/ /\ ~(cfg.netrc.enabled /\ from_netrc(s.req.url, None).some)
          /\ KeyringAsked(s, NoCreds)
          /\ \A c \in keyring_fetch(KeyringService(s), None) :
                c.some /\ Valid(RealmOf(s.req.url), to_header(c))

\* The caller has put no refused password into the cache of the realm.
NoRefusedSeed(realm) ==
    \A e \in Seeds(realm) : e.ins.password = None \/ Valid(realm, to_header(e.ins))

C13_InvalidUrlCredentialsDoNotPoison ==
    \A p \in world.clients :
       LET s == h[p]
           realm == RealmOf(s.req.url)
       IN  /\ ( /\ s.pc = "done" /\ Bare(s)
                /\ \E e \in Calls(realm) : InvalidInUrl(e)
                /\ NoRefusedSeed(realm)
                /\ ProvidersSupply(s) )
                => (s.result = Response(200) /\ Valid(realm, s.header))
           /\ (s.pc # "idle" /\ Bare(s) /\ s.header.some) =>
                 \A e \in Calls(realm) :
                    (InvalidInUrl(e) /\ e.req.header = s.header) =>
                       \E f \in Seeds(realm) : to_header(f.ins) = s.header

\* After a request with an invalid password in its URL, a request without
\* credentials has been answered 200 with what the providers supplied.
C13_Witness ==
    \E p \in world.clients :
       /\ h[p].pc = "done" /\ Bare(h[p])
       /\ \E e \in Calls(RealmOf(h[p].req.url)) : InvalidInUrl(e)
       /\ ProvidersSupply(h[p])
       /\ AskedProviders(h[p])
       /\ h[p].result = Response(200)

(***************************************************************************)
(* C14 as stated: after a request authenticated with credentials C got a   *)
(* successful response, every later request without credentials to a URL   *)
(* of the same realm is finally sent with C, and no provider is run for    *)
(* it.                                                                     *)
(***************************************************************************)
AuthenticatedSuccess(e) ==
    /\ e.header.some /\ e.header.pass # ""
    /\ e.result.kind = "response" /\ ~error_for_status(e.result.status)

ReusesWithoutProviders(s, e) ==
    /\ Sends(s) >= 1
    /\ s.header = e.header
    /\ ~AskedProviders(s)

CachedFor(realm) ==
    {e.creds : e \in {x \in url_map : x.url.realm = realm}}
        \cup {e.creds : e \in {x \in realm_map : x.realm = realm}}

FetchedBy(s) == {s.log[i].creds : i \in Ops(s, "done") \cup Ops(s, "wait")}

C16_RealmIsolation ==
    \A p \in world.clients :
       LET s == h[p]
       IN  /\ (s.pc \in {"probe", "send"} /\ s.header # s.req.header) =>
                 from_request(s.header) \in CachedFor(s.req.url.realm) \cup FetchedBy(s)
           /\ s.key # NoKey => s.key.url.realm = s.req.url.realm
           /\ \A e \in fetches :
                 (e.value.some /\ cfg.known = {}) =>
                    Valid(e.key.url.realm, to_header(e.value))

\* With credentials of realm A in the cache, a request to realm B that came
\* without credentials is being sent with those of realm B.
C16_Witness ==
    \E p \in world.clients :
       /\ h[p].pc = "send" /\ Bare(h[p])
       /\ h[p].req.url.realm = "B"
       /\ h[p].header = ServerB.header
       /\ \E e \in realm_map : e.realm = "A" /\ e.creds.password # None

(***************************************************************************)
(* The two runs of a pair, read off the trail.                             *)
(***************************************************************************)
FreshAt == {i \in 1..Len(trail) : trail[i] = Fresh}

RunA == SubSeq(trail, 1, (CHOOSE i \in FreshAt : TRUE) - 1)
RunB == SubSeq(trail, (CHOOSE i \in FreshAt : TRUE) + 1, Len(trail))

IsCall(run, i) == i <= Len(run) /\ run[i].pc = "done"

\* Run (a): the caller inserts C for a URL of the realm into the empty cache,
\* then a request without credentials to the realm.  Run (b): the first
\* request carries C.
SeedThenBare(a) ==
    /\ Len(a) >= 2
    /\ a[1].pc = "seed"
    /\ IsCall(a, 2) /\ Bare(a[2])
    /\ RealmOf(a[2].req.url) = RealmOf(a[1].req.url)

InUrl(b, c, realm) ==
    /\ IsCall(b, 1)
    /\ b[1].req.header = to_header(c)
    /\ RealmOf(b[1].req.url) = realm

FollowedByBare(run, i, realm) ==
    IsCall(run, i) /\ Bare(run[i]) /\ RealmOf(run[i].req.url) = realm

SameFirst(a, b) == a[2].result = b[1].result

SameFollowing(a, b) ==
    ( /\ FollowedByBare(a, 3, RealmOf(a[1].req.url))
      /\ FollowedByBare(b, 2, RealmOf(a[1].req.url)) )
    => a[3].result = b[2].result

SameOutcomes(a, b) == SameFirst(a, b) /\ SameFollowing(a, b)

NotNever(run) == \A i \in 1..Len(run) : run[i].pc = "done" => PolicyOf(run[i]) # "Never"

ProbeFailed(p) ==
    /\ ProbeAnswered(p)
    /\ h'[p].log[Len(h[p].log) + 1] = Event("response", NoCreds, TransportError.status)

C22_TransportErrorReturned ==
    [][\A p \in world.clients :
         ProbeFailed(p) =>
            /\ h'[p] = Finish([h[p] EXCEPT !.log =
                                  Append(@, Event("response", NoCreds, 0))], TransportError)
            /\ UNCHANGED <<url_map, realm_map, fetches, chains>>]_vars

\* Under Auto a request without credentials was probed, and the probe's
\* transport error has been returned.
C22_Witness ==
    \E p \in world.clients :
       /\ h[p].pc = "done"
       /\ h[p].result = TransportError
       /\ ~cfg.only_authenticated /\ PolicyOf(h[p]) = "Auto"
       /\ Bare(h[p]) /\ ~h[p].header.some
       /\ Sends(h[p]) = 1

(***************************************************************************)
(* C23: when a probe is due (an unauthenticated attempt is allowed and no  *)
(* password came with the request or from get_url) and the request cannot  *)
(* be cloned, handle fails with NotCloneable and has sent nothing; a       *)
(* request is in flight as a probe only when its clone was kept, and       *)
(* NotCloneable is returned in no other case.                              *)
(***************************************************************************)
ProbeDue(s) ==
    /\ retry_unauthenticated(PolicyOf(s))
    /\ \/ PolicyOf(s) = "Never"
       \/ /\ Bare(s)
          /\ Len(s.log) >= 1
          /\ s.log[1].op = "get_url(request)"
          /\ s.log[1].creds.password = None

C23_NotCloneableBeforeSend ==
    \A p \in world.clients :
       LET s == h[p]
       IN  /\ s.pc = "probe" => s.req.cloneable
           /\ (s.pc # "idle" /\ ProbeDue(s) /\ ~s.req.cloneable) =>
                 (s.pc = "done" /\ s.result = NotCloneable /\ Sends(s) = 0)
           /\ s.result = NotCloneable =>
                 (ProbeDue(s) /\ ~s.req.cloneable /\ Sends(s) = 0)

\* A request that cannot be cloned has been refused where a probe was due.
C23_Witness ==
    \E p \in world.clients :
       /\ h[p].pc = "done"
       /\ h[p].result = NotCloneable
       /\ PolicyOf(h[p]) = "Auto"
       /\ Sends(h[p]) = 0

(***************************************************************************)
(* C24: with only_authenticated set handle never gets to try_clone: no     *)
(* probe is sent and NotCloneable is never returned; a request that cannot *)
(* be cloned is sent once, with an Authorization header, or fails with     *)
(* MissingCredentials or MissingPassword.                                  *)
(***************************************************************************)
C24_OnlyAuthenticatedNeverClones ==
    \A p \in world.clients :
       LET s == h[p]
       IN  (cfg.only_authenticated /\ s.pc # "idle") =>
              /\ s.pc # "probe"
              /\ s.result # NotCloneable
              /\ (s.pc = "done" /\ ~s.req.cloneable) =>
                    \/ s.result \in {MissingCredentials, MissingPassword} /\ Sends(s) = 0
                    \/ /\ Sends(s) = 1
                       /\ s.header.some
                       /\ s.result.kind \in {"response", "transport"}

\* With only_authenticated set, a request that cannot be cloned and came
\* without credentials has been sent with discovered ones and answered 200.
C24_Witness ==
    \E p \in world.clients :
       /\ cfg.only_authenticated
       /\ h[p].pc = "done"
       /\ ~h[p].req.cloneable /\ Bare(h[p])
       /\ h[p].header.some
       /\ h[p].result = Response(200)

(***************************************************************************)
(* C25 as stated: handle returns MissingCredentials only when an unauthenticated     *)
(* attempt is forbidden (policy Always, or only_authenticated set) and no  *)
(* credentials were found: none in the cache and none by                   *)
(* fetch_credentials.  It returns MissingPassword only under policy        *)
(* Always.  Under policy Auto without only_authenticated it returns        *)
(* neither.                                                                *)
(***************************************************************************)
NothingFound(s) ==
    /\ ~s.credentials.some
    /\ \A op \in {"get_url(request)", "get_url(index)", "get_realm", "done", "wait"} :
          ~Found(s, op)

C25_MissingOnlyWhenNothingFound ==
    \A p \in world.clients :
       LET s == h[p]
       IN  /\ s.result = MissingCredentials =>
                 /\ PolicyOf(s) = "Always" \/ cfg.only_authenticated
                 /\ NothingFound(s)
           /\ s.result = MissingPassword => PolicyOf(s) = "Always"
           /\ (PolicyOf(s) = "Auto" /\ ~cfg.only_authenticated) =>
                 s.result \notin {MissingCredentials, MissingPassword}

(***************************************************************************)
(* C25, amended: handle returns MissingCredentials only when an            *)
(* unauthenticated attempt is forbidden, nothing was sent, no cache lookup *)
(* and no provider gave a password and fetch_credentials returned nothing; *)
(* a username-only cache entry may have been found.  MissingPassword and   *)
(* the Auto case are as stated.                                            *)
(***************************************************************************)
NoPasswordFound(s) ==
    /\ s.credentials.password = None
    /\ \A i \in 1..Len(s.log) : s.log[i].creds.password = None
    /\ \E i \in Ops(s, "done") \cup Ops(s, "wait") : ~s.log[i].creds.some

C25_MissingOnlyWhenForbidden ==
    \A p \in world.clients :
       LET s == h[p]
       IN  /\ s.result = MissingCredentials =>
                 /\ PolicyOf(s) = "Always" \/ cfg.only_authenticated
                 /\ Sends(s) = 0
                 /\ NoPasswordFound(s)
           /\ s.result = MissingPassword =>
                 (PolicyOf(s) = "Always" /\ Sends(s) = 0)
           /\ (PolicyOf(s) = "Auto" /\ ~cfg.only_authenticated) =>
                 s.result \notin {MissingCredentials, MissingPassword}

\* With only_authenticated set and a username-only entry in the cache, a
\* request without credentials has failed with MissingCredentials.
C25_Witness ==
    \E p \in world.clients :
       /\ h[p].pc = "done"
       /\ h[p].result = MissingCredentials
       /\ cfg.only_authenticated /\ PolicyOf(h[p]) = "Auto"
       /\ h[p].credentials.some

(***************************************************************************)
(* C26 as stated: under policy Always on an index whose keyring holds an   *)
(* entry for one username, a request that carries another username and no  *)
(* password fails with MissingCredentials, and nothing is sent for it.     *)
(***************************************************************************)
\* The keyring is configured and has no entry for the username of the request.
OtherUser(s) ==
    /\ PolicyOf(s) = "Always"
    /\ UsernameOnly(s.req.header)
    /\ cfg.keyring.enabled
    /\ keyring_fetch(KeyringService(s), None) # {NoCreds}
    /\ keyring_fetch(KeyringService(s), s.req.header.user) = {NoCreds}

C26_OtherUserMissingCredentials ==
    \A p \in world.clients :
       (h[p].pc = "done" /\ OtherUser(h[p])) =>
          (h[p].result = MissingCredentials /\ Sends(h[p]) = 0)

(***************************************************************************)
(* C26, amended: such a request fails with MissingPassword, after the      *)
(* keyring was asked for its username, and nothing is sent for it.         *)
(***************************************************************************)
C26_OtherUserMissingPassword ==
    \A p \in world.clients :
       (h[p].pc # "idle" /\ OtherUser(h[p])) =>
          /\ Sends(h[p]) = 0
          /\ h[p].pc = "done" => h[p].result = MissingPassword

\* After a request without credentials was answered 200 with the keyring's
\* entry, a request with another username has failed with MissingPassword.
C26_Witness ==
    \E p \in world.clients :
       /\ h[p].pc = "done" /\ OtherUser(h[p])
       /\ Did(h[p], "keyring")
       /\ h[p].result = MissingPassword
       /\ \E e \in Calls(RealmOf(h[p].req.url)) :
             Bare(e) /\ Did(e, "keyring") /\ e.result = Response(200)

(***************************************************************************)
(* C27: once done(key, value) has published a value for a key, the slot    *)
(* keeps it for good, and every later call of fetch_credentials with the   *)
(* key returns that value and runs no provider; the same when the value is *)
(* none, so after a fetch that found nothing no later request with the key *)
(* asks netrc or the keyring.                                              *)
(***************************************************************************)
\* In this step p has called fetch_credentials.
CallsFetch(p) == h[p].key = NoKey /\ h'[p].key # NoKey

\* In this step fetch_credentials has returned to p from wait.
Woken(p) == h[p].pc = "wait" /\ h'[p].pc \notin {"wait", "cancelled"}

C27_PublishedValueIsFinal ==
    [][/\ \A e \in fetches : e.state = "done" => e \in fetches'
       /\ \A p \in world.clients :
            /\ (CallsFetch(p) /\ IsDone(fetches, h'[p].key)) =>
                  /\ h'[p].pc = "wait"
                  /\ ~AskedProviders(h'[p])
                  /\ chains' = chains
            /\ (Woken(p) /\ ~Did(h[p], "suspend")) =>
                  /\ h'[p].log[Len(h[p].log) + 1] =
                        Event("wait", SlotValue(fetches, h[p].key), 0)
                  /\ ~AskedProviders(h'[p])
                  /\ chains' = chains]_vars

\* With netrc configured, a request has been told that an earlier fetch for
\* its key found nothing, and has asked no provider.
C27_Witness ==
    \E p \in world.clients :
       /\ cfg.netrc.enabled
       /\ ~Did(h[p], "suspend")
       /\ \E i \in Ops(h[p], "wait") : ~h[p].log[i].creds.some
       /\ ~AskedProviders(h[p])
       /\ Count(chains, h[p].key) = 1

(***************************************************************************)
(* C28 as stated: at no moment are two keyring fetch calls in progress,    *)
(* whatever the fetch keys of the requests.                                *)
(***************************************************************************)
InKeyring == {p \in world.clients : h[p].pc = "keyring"}

C28_OneKeyringCallAtATime == Cardinality(InKeyring) <= 1

(***************************************************************************)
(* C28, amended: keyring calls are serialized per single-flight key: the   *)
(* caller in a keyring call is the one fetcher of its key, whose slot is   *)
(* registered and not yet published, so two keyring calls in progress have *)
(* different keys (another index or realm, or another username).           *)
(***************************************************************************)
C28_OneKeyringCallPerKey ==
    /\ \A p \in InKeyring :
          /\ HasSlot(fetches, h[p].key) /\ ~IsDone(fetches, h[p].key)
          /\ Count(chains, h[p].key) = 1
    /\ \A e \in fetches : Cardinality({p \in InKeyring : h[p].key = e.key}) <= 1

\* Two requests with the same username, one to the index and one to
\* another URL of the realm, are both in their keyring call.
C28_Witness ==
    \E p, q \in world.clients :
       /\ h[p].pc = "keyring" /\ h[q].pc = "keyring"
       /\ h[p].key.kind = "Index" /\ h[q].key.kind = "Realm"
       /\ h[p].key.username = h[q].key.username

(***************************************************************************)
(* C29: for a request that arrives with a username and no password the     *)
(* sources are consulted in the order (1) get_url(index URL) when an index *)
(* matches, get_realm otherwise, (2) get_url(request URL),                 *)
(* (3) fetch_credentials, (4) get_realm when an index matches; each one    *)
(* only after all earlier ones returned nothing, so fetch_credentials is   *)
(* not called after step 1 or 2 returned an entry.                         *)
(***************************************************************************)
IsSource(e) ==
    e.op \in {"get_url(index)", "get_url(request)", "get_realm", "fetch_credentials"}

Consulted(s) == SelectSeq(s.log, IsSource)

SourceOrder(s) ==
    IF IndexOf(s) # NoUrl
    THEN <<"get_url(index)", "get_url(request)", "fetch_credentials", "get_realm">>
    ELSE <<"get_realm", "get_url(request)", "fetch_credentials">>

\* What the source returned: the entry of a cache lookup, the value that
\* fetch_credentials returned with.
ReturnedNothing(s, e) ==
    IF e.op = "fetch_credentials"
    THEN /\ Did(s, "done") \/ Did(s, "wait")
         /\ ~Found(s, "done") /\ ~Found(s, "wait")
    ELSE ~e.creds.some

C29_SourcesInOrder ==
    \A p \in world.clients :
       LET s == h[p]
           seen == Consulted(s)
       IN  UsernameOnly(s.req.header) =>
              /\ Len(seen) <= Len(SourceOrder(s))
              /\ \A i \in 1..Len(seen) :
                    /\ seen[i].op = SourceOrder(s)[i]
                    /\ i < Len(seen) => ReturnedNothing(s, seen[i])

(***************************************************************************)
(* C30: for a request that arrives with a username and no password, at a   *)
(* URL whose policy is not Never, a request without a password is sent     *)
(* only after the cache and fetch_credentials have both been consulted and *)
(* gave no password; a username-only cache entry does not make handle send *)
(* before the providers were asked.                                        *)
(***************************************************************************)
C30_SentBareOnlyAfterProviders ==
    \A p \in world.clients :
       LET s == h[p]
       IN  (UsernameOnly(s.req.header) /\ PolicyOf(s) # "Never") =>
              \A i \in Ops(s, "send") :
                 s.log[i].creds.password = None =>
                    /\ \E j \in 1..(i - 1) :
                          s.log[j].op \in {"get_url(index)", "get_url(request)", "get_realm"}
                    /\ \E j \in 1..(i - 1) :
                          s.log[j].op \in {"done", "wait"} /\ s.log[j].creds.password = None

(***************************************************************************)
(* C21: with two indexes registered in one realm, whose keyring entries    *)
(* hold the same username with different passwords, a username-only        *)
(* request to the second index, made after a username-only request to the  *)
(* first index was answered 200, is answered 200 too: it is looked up      *)
(* under its own index URL, fetched (on a miss) under the key of its own   *)
(* index and sent with that index's password, not the first one's.  With   *)
(* no index registered the second request is sent with the first password. *)
(***************************************************************************)
\* The prefix of the server the URL is under.
PrefixOf(url) == Url(url.realm, SubSeq(url.path, 1, 1))

\* An earlier username-only request under the other prefix was answered 200.
FirstSucceeded(s) ==
    {e \in Calls(RealmOf(s.req.url)) :
        /\ UsernameOnly(e.req.header)
        /\ e.req.header = s.req.header
        /\ PrefixOf(e.req.url) # PrefixOf(s.req.url)
        /\ e.result = Response(200)}

C21_IndexScopedPasswords ==
    \A p \in world.clients :
       LET s == h[p]
       IN  (s.pc = "done" /\ UsernameOnly(s.req.header)) =>
              \A e \in FirstSucceeded(s) :
                 IF cfg.indexes # <<>>
                 THEN /\ IndexOf(s) = PrefixOf(s.req.url) /\ IndexOf(e) = PrefixOf(e.req.url)
                      /\ Did(s, "fetch_credentials") =>
                            s.key = [kind |-> "Index", url |-> IndexOf(s),
                                     username |-> s.req.header.user]
                      /\ s.header # e.header
                      /\ s.result = Response(200)
                 ELSE /\ s.header = e.header
                      /\ s.result = Response(UNAUTHORIZED)

\* With the two indexes registered, both username-only requests have been
\* answered 200, each with the password of its index.
C21_Witness ==
    \E p \in world.clients :
       /\ h[p].pc = "done" /\ UsernameOnly(h[p].req.header)
       /\ cfg.indexes # <<>>
       /\ IndexOf(h[p]) = Prefix2
       /\ h[p].header = Server2.header
       /\ h[p].result = Response(200)
       /\ \E e \in FirstSucceeded(h[p]) : e.header = Server1.header

(***************************************************************************)
(* C31: for a request without credentials, at a URL whose policy is not    *)
(* Never, handle first looks up get_url(request URL, no username); when    *)
(* the entry has a password, handle sends one request, with the entry's    *)
(* credentials, sends no probe, does not call fetch_credentials, and       *)
(* returns what that send returned.                                        *)
(***************************************************************************)
FullUrlHit(s) ==
    /\ Bare(s)
    /\ Len(s.log) >= 1
    /\ s.log[1].op = "get_url(request)"
    /\ s.log[1].creds.password # None

C31_FullUrlEntrySentAtOnce ==
    \A p \in world.clients :
       LET s == h[p]
       IN  /\ (s.pc # "idle" /\ Bare(s) /\ PolicyOf(s) # "Never") =>
                 (Len(s.log) >= 1 /\ s.log[1].op = "get_url(request)")
           /\ FullUrlHit(s) =>
                 /\ s.pc \in {"send", "done"}
                 /\ s.header = to_header(s.log[1].creds)
                 /\ Len(s.log) >= 2
                 /\ s.log[2] = Event("send", s.log[1].creds, 0)
                 /\ IF s.pc = "send"
                    THEN Len(s.log) = 2
                    ELSE /\ Len(s.log) = 3
                         /\ s.log[3].op = "response"
                         /\ s.result.kind \in {"response", "transport"}
                         /\ s.result.status = s.log[3].status

\* Under Auto, with probes allowed, the cached credentials of the URL were
\* sent at once and the response has been returned.
C31_Witness ==
    \E p \in world.clients :
       /\ FullUrlHit(h[p])
       /\ PolicyOf(h[p]) = "Auto" /\ ~cfg.only_authenticated
       /\ h[p].pc = "done"
       /\ h[p].result = Response(UNAUTHORIZED)

(***************************************************************************)
(* C32: for a request without credentials under Auto, with                 *)
(* only_authenticated unset, when get_url finds no entry for the request   *)
(* URL, the first request sent carries no credentials, also when the realm *)
(* cache holds credentials of the realm; after an answer other than 401,   *)
(* 403 or 404 nothing more is sent and the realm credentials are never     *)
(* attached.                                                               *)
(***************************************************************************)
UrlMiss(s) ==
    /\ Bare(s)
    /\ PolicyOf(s) = "Auto" /\ ~cfg.only_authenticated
    /\ Len(s.log) >= 1
    /\ s.log[1] = Event("get_url(request)", NoCreds, 0)

FirstAnswer(s) == s.log[CHOOSE i \in Ops(s, "response") : \A j \in Ops(s, "response") : i <= j]

C32_ProbeWithoutRealmCredentials ==
    \A p \in world.clients :
       LET s == h[p]
       IN  UrlMiss(s) =>
              /\ Len(s.log) >= 2 => s.log[2] = Event("send", NoCreds, 0)
              /\ (Did(s, "response") /\ ~IsAuthFailure(FirstAnswer(s).status)) =>
                    /\ s.pc = "done"
                    /\ Len(s.log) = 3
                    /\ s.header = NoHeader
                    /\ s.result.status = FirstAnswer(s).status

\* The realm cache holds a password for the realm, and a request to a URL
\* with no entry of its own has been answered 200 without credentials.
C32_Witness ==
    \E p \in world.clients :
       /\ UrlMiss(h[p])
       /\ \E c \in get_realm(RealmOf(h[p].req.url), None) : c.password # None
       /\ h[p].pc = "done"
       /\ h[p].header = NoHeader
       /\ h[p].result = Response(200)

(***************************************************************************)
(* C33: for a request without credentials, a retry that carries only a     *)
(* username (the send that follows a fetch_credentials that returned       *)
(* nothing) happens only when the probe was answered 401, 403 or 404, no   *)
(* cache lookup and no provider gave a password, the first attempt carried *)
(* no username, and the index or realm cache returned a username-only      *)
(* entry; there is at most one, and its credentials are not inserted.      *)
(***************************************************************************)
UsernameRetries(s) ==
    {i \in Ops(s, "send") :
        /\ i > 1
        /\ s.log[i - 1].op \in {"done", "wait"}
        /\ ~s.log[i - 1].creds.some}

C33_UsernameRetryOnlyAfterProbe ==
    \A p \in world.clients :
       LET s == h[p]
       IN  Bare(s) =>
              /\ Cardinality(UsernameRetries(s)) <= 1
              /\ \A i \in UsernameRetries(s) :
                    /\ s.log[i].creds.some /\ s.log[i].creds.password = None
                    /\ \E j \in 1..(i - 1) :
                          s.log[j].op = "response" /\ IsAuthFailure(s.log[j].status)
                    /\ \A j \in 1..(i - 1) : s.log[j].creds.password = None
                    /\ \A j \in 1..(i - 1) :
                          s.log[j].op = "send" => s.log[j].creds.username = None
                    /\ \E j \in 1..(i - 1) :
                          /\ s.log[j].op \in {"get_url(index)", "get_realm"}
                          /\ s.log[j].creds.some
                    /\ ~s.ins.some

(***************************************************************************)
(* C34: when the probe was answered 401, 403 or 404 and neither the cache  *)
(* nor the providers gave credentials to retry with, handle returns the    *)
(* response it kept from the probe, not an error; when no probe was sent   *)
(* and nothing was found for a request without credentials, handle fails   *)
(* with MissingCredentials and has sent nothing.                           *)
(***************************************************************************)
FetchReturned(s) == Did(s, "done") \/ Did(s, "wait")

\* The search is over and has left nothing to send: no password, and no
\* username that the first attempt did not carry already.
NothingToRetryWith(s) ==
    /\ s.ret = "handle"
    /\ FetchReturned(s)
    /\ \A i \in 1..Len(s.log) : s.log[i].creds.password = None
    /\ s.credentials.some => s.attempt_has_username

C34_RetainedResponseOrMissing ==
    \A p \in world.clients :
       LET s == h[p]
       IN  /\ (NothingToRetryWith(s) /\ s.response.kind = "response") =>
                 /\ IsAuthFailure(s.response.status)
                 /\ s.pc = "done"
                 /\ s.result = s.response
                 /\ Sends(s) = 1
           /\ (NothingToRetryWith(s) /\ ~Did(s, "send") /\ ~s.credentials.some) =>
                 /\ s.pc = "done"
                 /\ s.result = MissingCredentials

\* With netrc and the keyring configured, the probe was answered 403,
\* nothing was found, and the 403 has been returned.
C34_Witness ==
    \E p \in world.clients :
       /\ NothingToRetryWith(h[p])
       /\ cfg.netrc.enabled
       /\ h[p].pc = "done"
       /\ h[p].result = Response(FORBIDDEN)
       /\ h[p].response = Response(FORBIDDEN)

(***************************************************************************)
(* C35 as stated: for a username-only request to a URL of an index, when   *)
(* get_url(index URL), get_url(request URL) and fetch_credentials gave     *)
(* nothing and the realm cache holds credentials of the realm and the      *)
(* username, the request is sent with the realm's credentials.             *)
(***************************************************************************)
\* fetch_credentials has returned nothing to a username-only request of an
\* index, and the cache is still as the handler found it.
AfterEmptyFetch(s) ==
    /\ UsernameOnly(s.req.header)
    /\ IndexOf(s) # NoUrl
    /\ s.ret = "request_credentials"
    /\ FetchReturned(s) /\ ~Found(s, "done") /\ ~Found(s, "wait")
    /\ s.pc = "send" \/ (s.pc = "done" /\ Sends(s) = 0)

RealmEntries(s) == get_realm(RealmOf(s.req.url), s.req.header.user) \ {NoCreds}

C35_RealmFallbackSent ==
    \A p \in world.clients :
       LET s == h[p]
       IN  (AfterEmptyFetch(s) /\ RealmEntries(s) # {}) =>
              /\ ~Found(s, "get_url(index)") /\ ~Found(s, "get_url(request)")
              /\ s.pc = "send"
              /\ \E c \in RealmEntries(s) : s.header = to_header(c)

(***************************************************************************)
(* C35, amended: the request is sent with the realm's credentials when     *)
(* they hold a password or the policy is not Always; under Always, with a  *)
(* realm entry that holds the username alone, handle fails with            *)
(* MissingPassword and sends nothing.                                      *)
(***************************************************************************)
C35_RealmFallbackSentWithPassword ==
    \A p \in world.clients :
       LET s == h[p]
       IN  (AfterEmptyFetch(s) /\ RealmEntries(s) # {}) =>
              /\ ~Found(s, "get_url(index)") /\ ~Found(s, "get_url(request)")
              /\ \E c \in RealmEntries(s) :
                    IF MissingPasswordCheck(PolicyOf(s), c)
                    THEN s.pc = "done" /\ s.result = MissingPassword
                    ELSE /\ s.pc = "send"
                         /\ s.header = to_header(c)
                         /\ s.ins = c

\* The realm fallback of the call has returned an entry.
RealmFallback(s) ==
    {i \in Ops(s, "get_realm") :
        /\ s.ret = "request_credentials"
        /\ i > 1
        /\ s.log[i - 1].op \in {"done", "wait"}
        /\ s.log[i].creds.some}

\* The providers found nothing for the index, and the password cached for
\* the realm has been sent to the index and accepted.
C35_Witness ==
    \E p \in world.clients :
       /\ UsernameOnly(h[p].req.header)
       /\ \E i \in RealmFallback(h[p]) : h[p].log[i].creds.password # None
       /\ Did(h[p], "known")
       /\ h[p].pc = "done"
       /\ h[p].result = Response(200)

(***************************************************************************)
(* C36: a call of fetch_credentials that was elected (register(key)        *)
(* answered true) calls done(key, value) exactly once before it returns,   *)
(* whether the known provider, netrc or the keyring found the credentials, *)
(* the keyring was skipped or nothing was found; the value in the slot is  *)
(* the value it returns to its caller.                                     *)
(***************************************************************************)
Elected(s) == Did(s, "known")

Published(s) == s.log[CHOOSE i \in Ops(s, "done") : TRUE].creds

C36_DoneOncePerElectedFetch ==
    \A p \in world.clients :
       LET s == h[p]
       IN  /\ Elected(s) =>
                 IF s.pc = "keyring"
                 THEN ~Did(s, "done") /\ HasSlot(fetches, s.key) /\ ~IsDone(fetches, s.key)
                 ELSE /\ Cardinality(Ops(s, "done")) = 1
                      /\ IsDone(fetches, s.key)
                      /\ SlotValue(fetches, s.key) = Published(s)
                      /\ \A op \in {"known", "netrc"} : \A i \in Ops(s, op) :
                            s.log[i].creds.some => Published(s) = s.log[i].creds
                      /\ Published(s).some =>
                            (s.header = to_header(Published(s)) /\ s.ins = Published(s))
           /\ Did(s, "done") => Elected(s)

\* The keyring was asked, found credentials, and they are published and
\* on the request.
C36_Witness ==
    \E p \in world.clients :
       /\ Elected(h[p])
       /\ Did(h[p], "keyring")
       /\ h[p].pc = "send"
       /\ Published(h[p]).some
       /\ SlotValue(fetches, h[p].key) = Published(h[p])

(***************************************************************************)
(* C37: where no index matches, the single-flight key is the realm and the *)
(* username.  After a username-only request that called fetch_credentials, *)
(* a request with the same username to another path of the realm gets what *)
(* was fetched for the first URL, from the cache or from the slot, and the *)
(* keyring is not asked about the second URL, also when it holds other     *)
(* credentials for it.                                                     *)
(***************************************************************************)
\* The earlier username-only requests of the realm, to another URL, that
\* fetched under the key of the realm and the username.
FetchedBefore(s) ==
    {e \in Calls(RealmOf(s.req.url)) :
        /\ UsernameOnly(e.req.header)
        /\ e.req.header = s.req.header
        /\ e.req.url # s.req.url
        /\ Elected(e)}

C37_RealmKeySharedAcrossPaths ==
    \A p \in world.clients :
       LET s == h[p]
       IN  (cfg.indexes = <<>> /\ s.pc # "idle") =>
              /\ s.key # NoKey =>
                    s.key = [kind |-> "Realm", url |-> Url(RealmOf(s.req.url), <<>>),
                             username |-> FetchUsername(s.arg)]
              /\ UsernameOnly(s.req.header) =>
                    \A e \in FetchedBefore(s) :
                       /\ ~AskedProviders(s)
                       /\ s.key # NoKey => s.key = e.key
                       /\ \A i \in Ops(s, "wait") : s.log[i].creds = Published(e)
                       /\ s.pc \in {"send", "done"} =>
                             s.header = IF Published(e).some THEN to_header(Published(e))
                                        ELSE s.req.header

\* Nothing was fetched for the first URL; the second request was told so
\* by the slot and was sent without a password, although the keyring holds
\* a password for its URL.
C37_Witness ==
    \E p \in world.clients :
       /\ cfg.indexes = <<>>
       /\ UsernameOnly(h[p].req.header)
       /\ FetchedBefore(h[p]) # {}
       /\ Did(h[p], "wait")
       /\ h[p].pc = "done"
       /\ h[p].header = h[p].req.header
       /\ keyring_fetch(h[p].req.url, h[p].req.header.user) # {NoCreds}

(***************************************************************************)
(* C38: handle sends at most two requests per call, a probe and a retry;   *)
(* at most one when the request arrived with credentials, when the policy  *)
(* is Always or Never, or when only_authenticated is set.                  *)
(***************************************************************************)
C38_AtMostTwoSends ==
    \A p \in world.clients :
       LET s == h[p]
       IN  /\ Sends(s) <= 2
           /\ Sends(s) = Cardinality(Ops(s, "response"))
                  + (IF s.pc \in {"probe", "send"} THEN 1 ELSE 0)
           /\ ( \/ s.req.header.some
                \/ PolicyOf(s) \in {"Always", "Never"}
                \/ cfg.only_authenticated ) => Sends(s) <= 1

\* A request without credentials was probed, refused, and sent again.
C38_Witness ==
    \E p \in world.clients :
       /\ h[p].pc = "done"
       /\ Sends(h[p]) = 2
       /\ Cardinality(Ops(h[p], "response")) = 2

(***************************************************************************)
(* C39: with concurrent requests on one cache, when every HTTP send and    *)
(* every provider call returns and no call is cancelled, every call of     *)
(* handle returns, with a response or an error; no call stays in wait on   *)
(* the slot of another.                                                    *)
(***************************************************************************)
C39_EveryCallReturns ==
    \A p \in Clients :
       (h[p].pc \in {"probe", "send", "keyring", "wait"})
          ~> (h[p].pc = "done" /\ h[p].result # NoResult)

\* A call that was suspended on the slot of another call has returned.
C39_Witness ==
    \E p, q \in world.clients :
       /\ p # q
       /\ h[p].pc = "done" /\ Did(h[p], "suspend") /\ Did(h[p], "wait")
       /\ h[q].key = h[p].key /\ Elected(h[q])

(***************************************************************************)
(* C40: a call of handle that ends with MissingCredentials,                *)
(* MissingPassword, NotCloneable, a transport error or a response of       *)
(* status 400..599 leaves url_map and realm_map as they were: no step of   *)
(* a call changes them except the one that ends it with another response.  *)
(* The single-flight map only gains slots, and the slot of the call is     *)
(* completed when the call ends.                                           *)
(***************************************************************************)
EndsInError(s) ==
    s.pc = "done" /\ (s.result.kind # "response" \/ s.result.status \in 400..599)

StepOf(p) == h'[p] # h[p] /\ h'[p].pc \notin {"idle", "cancelled"}

C40_FailedCallLeavesCache ==
    [][\A p \in world.clients :
         StepOf(p) =>
            /\ (h'[p].pc # "done" \/ EndsInError(h'[p])) =>
                  UNCHANGED <<url_map, realm_map>>
            /\ \A e \in fetches : HasSlot(fetches', e.key)
            /\ \A e \in fetches' :
                  (~HasSlot(fetches, e.key) \/ e \notin fetches) => e.key = h'[p].key
            /\ (h'[p].pc = "done" /\ h'[p].key # NoKey) => IsDone(fetches', h'[p].key)]_vars

\* After a fetch that found credentials the retry was answered 403, and
\* the cache is empty.
C40_Witness ==
    \E p \in world.clients :
       /\ EndsInError(h[p])
       /\ h[p].result = Response(FORBIDDEN)
       /\ h[p].ins.some
       /\ IsDone(fetches, h[p].key)
       /\ url_map = {} /\ realm_map = {}

====
